---------------------------- MODULE Spec2Model ----------------------------
(***************************************************************************)
(* Model of the reducer engine of literate-outliner (src/bundle.ts, the    *)
(* bundle of the code blocks of the README).                               *)
(*                                                                         *)
(* The program's state is the object `items` of namespace Item             *)
(* (bundle.ts:10).  Each reducer registered with Reducer.define is one     *)
(* action: it receives the captured groups of its regular expression and   *)
(* runs to its end or to the first exception it throws.  A thrown          *)
(* exception does not undo the assignments made before it.                 *)
(*                                                                         *)
(* JavaScript values are modelled as follows.                              *)
(*   - a string used as an item id is a TLA+ string;                       *)
(*   - the value undefined is the string Undefined, which is no id;        *)
(*   - a string that the code parses (position_str, encoded_title,         *)
(*     encoded_note) and its decoded value are sequences of one-character  *)
(*     strings;                                                            *)
(*   - an object is a function from its own property names to values; a    *)
(*     property that is absent reads as undefined;                         *)
(*   - a number is a record [nan, val].                                    *)
(***************************************************************************)
EXTENDS Integers, Sequences, FiniteSets, TLC

(***************************************************************************)
(* Bounds of the model.                                                    *)
(***************************************************************************)
\* largest magnitude of a canonical position token
MaxPos == 2

(***************************************************************************)
(* Values.                                                                 *)
(***************************************************************************)
\* the JavaScript value undefined (a missing argument, a missing property)
Undefined == "<undefined>"

\* property names every object inherits from Object.prototype; one
\* representative is enough
ProtoKeys == {"toString"}

\* the ids the facts draw from: two ordinary names and a name that is also an
\* array index
Ids == {"r", "a", "0"}

\* the ids of the replays that stop at the first exception: with a second name
\* that is an array index they build trees three items deep
ReplayIds == {"r", "a", "0", "1"}

\* the ids of the replays that build wide trees: a name, and three names that
\* are array indices, which the check of line 49 lets a parent take as its
\* first, second and third subitem
TreeIds == {"r", "0", "1", "2"}

\* ids that are no ordinary names: a property name `items` inherits, and the
\* name the key of undefined coerces to
NameIds == {"a", "toString", "undefined"}

\* the ids whose title and note the facts change
TextIds == {"r", "toString"}

\* an object without own properties (what spreading a function yields)
EmptyObj == [p \in {} |-> Undefined]

\* o.p
Prop(o, p) == IF p \in DOMAIN o THEN o[p] ELSE Undefined

\* a faulty patch, which forgets the spread: {p: v}
SpreadNothing(o, p, v) == [q \in {p} |-> v]

\* {...o, p: v}
Spread(o, p, v) == [q \in DOMAIN o \cup {p} |-> IF q = p THEN v ELSE o[q]]

\* the property key a value coerces to
ToKey(v) == IF v = Undefined THEN "undefined" ELSE v

\* a JavaScript value used as a condition: ids are non-empty strings
Truthy(v) == v # Undefined

(***************************************************************************)
(* Arrays of ids.                                                          *)
(***************************************************************************)
Min(x, y) == IF x < y THEN x ELSE y
Max(x, y) == IF x > y THEN x ELSE y

\* the index Array.prototype.slice derives from a relative index
RelIndex(k, len) == IF k < 0 THEN Max(len + k, 0) ELSE Min(k, len)

\* arr.slice(start, end)
SliceTo(arr, start, end) ==
    LET k == RelIndex(start, Len(arr))
        f == RelIndex(end, Len(arr))
    IN  IF k >= f THEN <<>> ELSE SubSeq(arr, k + 1, f)

\* a faulty slice, which starts one element late
SliceFromNext(arr, start) == SliceTo(arr, start + 1, Len(arr))

\* arr.slice(start)
SliceFrom(arr, start) == SliceTo(arr, start, Len(arr))

\* a faulty splice, which leaves the id out
InsertAtNothing(arr, position, id) == SliceTo(arr, 0, position) \o SliceFrom(arr, position)

\* [...arr.slice(0, position), id, ...arr.slice(position)]
InsertAt(arr, position, id) ==
    SliceTo(arr, 0, position) \o <<id>> \o SliceFrom(arr, position)

\* a faulty filter, which removes nothing
FilterOutNothing(arr, item_id) == arr

\* arr.filter(id => id !== item_id)
FilterOut(arr, item_id) == SelectSeq(arr, LAMBDA id : id # item_id)

\* arr.includes(item_id)
Includes(arr, item_id) == \E i \in 1..Len(arr) : arr[i] = item_id

\* the decimal digits; an array index below ten prints as one of them
Digits == <<"0", "1", "2", "3", "4", "5", "6", "7", "8", "9">>

\* key in arr: the operator `in` asks whether key is a property name of the
\* array, that is one of its indices, "length", or an inherited name. The ids
\* of the model have one character when they are numeric, so an index of ten
\* or more equals none of them.
InArray(key, arr) ==
    \/ \E i \in 0..(Len(arr) - 1) : i <= 9 /\ key = Digits[i + 1]
    \/ key = "length"
    \/ key \in ProtoKeys

(***************************************************************************)
(* Number.parseInt, Number.prototype.toString, isNaN.                      *)
(***************************************************************************)
\* a number: NaN, or the integer val (parseInt yields nothing else; it yields
\* -0 for "-0", which prints and slices as 0)
NaN == [nan |-> TRUE, val |-> 0]
Num(n) == [nan |-> FALSE, val |-> n]

\* a faulty isNaN, which finds no NaN
isNaNNever(num) == FALSE

\* isNaN(position)
isNaN(num) == num.nan

LowerHex == <<"a", "b", "c", "d", "e", "f">>
UpperHex == <<"A", "B", "C", "D", "E", "F">>

\* the value of the character c as a digit, or 99 when it is none
CharValue(c) ==
    IF \E i \in 1..10 : Digits[i] = c THEN (CHOOSE i \in 1..10 : Digits[i] = c) - 1
    ELSE IF \E i \in 1..6 : LowerHex[i] = c THEN 9 + (CHOOSE i \in 1..6 : LowerHex[i] = c)
    ELSE IF \E i \in 1..6 : UpperHex[i] = c THEN 9 + (CHOOSE i \in 1..6 : UpperHex[i] = c)
    ELSE 99

RECURSIVE TrimStart(_)
\* parseInt step 2: leading white space is skipped
TrimStart(s) == IF s # <<>> /\ Head(s) = " " THEN TrimStart(Tail(s)) ELSE s

RECURSIVE DigitPrefix(_, _)
\* parseInt: the longest prefix of s made of digits of the radix
DigitPrefix(s, radix) ==
    IF s # <<>> /\ CharValue(Head(s)) < radix
    THEN <<Head(s)>> \o DigitPrefix(Tail(s), radix)
    ELSE <<>>

RECURSIVE DigitsValue(_, _)
\* parseInt: the integer a string of digits denotes in the radix
DigitsValue(z, radix) ==
    IF z = <<>> THEN 0
    ELSE DigitsValue(SubSeq(z, 1, Len(z) - 1), radix) * radix + CharValue(z[Len(z)])

\* Number.parseInt(position_str), no radix given
parseInt(position_str) ==
    LET s0 == TrimStart(position_str)
        signed == s0 # <<>> /\ Head(s0) \in {"-", "+"}
        negative == s0 # <<>> /\ Head(s0) = "-"
        s1 == IF signed THEN Tail(s0) ELSE s0
        hex == Len(s1) >= 2 /\ s1[1] = "0" /\ s1[2] \in {"x", "X"}
        radix == IF hex THEN 16 ELSE 10
        s2 == IF hex THEN SubSeq(s1, 3, Len(s1)) ELSE s1
        z == DigitPrefix(s2, radix)
    IN  IF z = <<>> THEN NaN
        ELSE Num(IF negative THEN 0 - DigitsValue(z, radix) ELSE DigitsValue(z, radix))

RECURSIVE Decimal(_)
\* the decimal digits of a natural number
Decimal(n) ==
    IF n < 10 THEN <<Digits[n + 1]>>
    ELSE Decimal(n \div 10) \o <<Digits[(n % 10) + 1]>>

\* position.toString() (the integers of the model are far below 1e21, where
\* the exponent notation starts)
NumberToString(num) ==
    IF num.nan THEN <<"N", "a", "N">>
    ELSE IF num.val < 0 THEN <<"-">> \o Decimal(0 - num.val)
    ELSE Decimal(num.val)

(***************************************************************************)
(* JSON.parse of the payload of a title or note fact. The regular          *)
(* expressions capture (".+"): the payload starts and ends with a double   *)
(* quote and holds no line terminator.                                     *)
(***************************************************************************)
\* the character a JSON escape denotes, by the character after the backslash
\* (the payloads of the model use neither \b nor \u)
Unescape(e) ==
    CASE e = "\"" -> "\""
      [] e = "\\" -> "\\"
      [] e = "/" -> "/"
      [] e = "n" -> "\n"
      [] e = "r" -> "\r"
      [] e = "t" -> "\t"
      [] e = "f" -> "\f"

Escapable == {"\"", "\\", "/", "n", "r", "t", "f"}

\* characters that may not stand unescaped inside a JSON string
ControlChars == {"\n", "\r", "\t", "\f"}

SyntaxError == [ok |-> FALSE, val |-> <<>>]

RECURSIVE ScanString(_, _, _)
\* the JSON string whose opening quote precedes s[i]; acc is its decoded start
ScanString(s, i, acc) ==
    IF i > Len(s) THEN SyntaxError
    ELSE IF s[i] = "\"" THEN
        IF \A j \in (i + 1)..Len(s) : s[j] = " "
        THEN [ok |-> TRUE, val |-> acc]
        ELSE SyntaxError
    ELSE IF s[i] = "\\" THEN
        IF i + 1 <= Len(s) /\ s[i + 1] \in Escapable
        THEN ScanString(s, i + 2, acc \o <<Unescape(s[i + 1])>>)
        ELSE SyntaxError
    ELSE IF s[i] \in ControlChars THEN SyntaxError
    ELSE ScanString(s, i + 1, acc \o <<s[i]>>)

\* JSON.parse(encoded): the decoded string, or a SyntaxError
JSONparse(encoded) ==
    IF encoded # <<>> /\ Head(encoded) = "\"" THEN ScanString(encoded, 2, <<>>)
    ELSE SyntaxError

\* a faulty check, which lets every title pass
NoLineBreakAlways(title) == TRUE

\* title.indexOf("\n")  === -1
NoLineBreak(title) == \A i \in 1..Len(title) : title[i] # "\n"

(***************************************************************************)
(* namespace Item: the item table and its five functions.                  *)
(***************************************************************************)
\* Item.exists(id): id in items. The operator `in` also finds the property
\* names `items` inherits, as it is a plain object literal.
exists(its, id) == ToKey(id) \in DOMAIN its \/ ToKey(id) \in ProtoKeys

\* Item.create(id, parent_id)
create(its, id, parent_id) ==
    [k \in DOMAIN its \cup {ToKey(id)} |->
        IF k = ToKey(id)
        THEN [id |-> id, parent_id |-> parent_id, subitems |-> <<>>,
              title |-> <<>>, note |-> <<>>]
        ELSE its[k]]

\* Item.get(id), for an id with exists(id): the own record, or else the
\* inherited member, a function, which has none of the properties of an Item
get(its, id) == IF ToKey(id) \in DOMAIN its THEN its[ToKey(id)] ELSE EmptyObj

\* Item.update(id, patch), given the object patch returns
update(its, id, patched) ==
    [k \in DOMAIN its \cup {ToKey(id)} |-> IF k = ToKey(id) THEN patched ELSE its[k]]

\* a delete that cascades: the subitems of the item go with it
delWithSubitems(its, id) ==
    [k \in {j \in DOMAIN its : j # ToKey(id) /\ Prop(its[j], "parent_id") # id} |-> its[k]]

\* Item.del(id)
del(its, id) == [k \in DOMAIN its \ {ToKey(id)} |-> its[k]]

(***************************************************************************)
(* The reducers. Each operator runs the body of one reducer on the item    *)
(* table `its` and yields the item table it leaves behind together with    *)
(* the exception it threw, if any, and the line of bundle.ts that threw.   *)
(***************************************************************************)
\* the reducer returned
Returned(its) == [items |-> its, error |-> "none", line |-> 0]

\* the reducer threw at `line`, leaving `its` behind
Threw(its, error, line) == [items |-> its, error |-> error, line |-> line]

\* /Outline (.+) was created/
OutlineCreatedReducer(its, item_id) ==
    IF exists(its, item_id) THEN Threw(its, "AssertionError", 26)
    ELSE LET s1 == create(its, item_id, Undefined)
         IN  IF ~exists(s1, item_id) THEN Threw(s1, "AssertionError", 28)
             ELSE Returned(s1)

\* /Item (.+) was created inside item (.+) at position (.+)/
ItemCreatedInsideReducer(its, new_item_id, parent_item_id, position_str) ==
    IF ~exists(its, parent_item_id) THEN Threw(its, "AssertionError", 34)
    ELSE IF exists(its, new_item_id) THEN Threw(its, "AssertionError", 35)
    ELSE LET position == parseInt(position_str) IN
    IF NumberToString(position) # position_str THEN Threw(its, "AssertionError", 37)
    ELSE IF isNaN(position) THEN Threw(its, "AssertionError", 38)
    ELSE LET s1 == create(its, new_item_id, parent_item_id)
             parent_item == get(s1, parent_item_id)
         IN
    IF "subitems" \notin DOMAIN parent_item THEN Threw(s1, "TypeError", 43)
    ELSE LET s2 == update(s1, parent_item_id,
                     Spread(parent_item, "subitems",
                            InsertAt(parent_item.subitems, position.val, new_item_id)))
         IN
    IF ~exists(s2, new_item_id) THEN Threw(s2, "AssertionError", 48)
    ELSE IF ~InArray(new_item_id, get(s2, parent_item_id).subitems)
         THEN Threw(s2, "AssertionError", 49)
    ELSE Returned(s2)

\* /Item (.+)'s title was changed to (".+")/
TitleChangedReducer(its, item_id, encoded_title) ==
    IF ~exists(its, item_id) THEN Threw(its, "AssertionError", 55)
    ELSE LET parsed == JSONparse(encoded_title) IN
    IF ~parsed.ok THEN Threw(its, "SyntaxError", 56)
    \* line 57: a payload that starts with a quote parses to a string or not at all
    ELSE IF ~NoLineBreak(parsed.val) THEN Threw(its, "AssertionError", 58)
    ELSE LET s1 == update(its, item_id, Spread(get(its, item_id), "title", parsed.val))
         IN
    IF get(s1, item_id).title # parsed.val THEN Threw(s1, "AssertionError", 63)
    ELSE Returned(s1)

\* /Item (.+)'s note was changed to (".+")/
NoteChangedReducer(its, item_id, encoded_note) ==
    IF ~exists(its, item_id) THEN Threw(its, "AssertionError", 69)
    ELSE LET parsed == JSONparse(encoded_note) IN
    IF ~parsed.ok THEN Threw(its, "SyntaxError", 70)
    \* line 71: as line 57
    ELSE LET s1 == update(its, item_id, Spread(get(its, item_id), "note", parsed.val))
         IN
    IF get(s1, item_id).note # parsed.val THEN Threw(s1, "AssertionError", 76)
    ELSE Returned(s1)

\* /Outline (.+) was deleted/
OutlineDeletedReducer(its, item_id) ==
    IF ~exists(its, item_id) THEN Threw(its, "AssertionError", 82)
    ELSE IF Truthy(Prop(get(its, item_id), "parent_id"))
         THEN Threw(its, "AssertionError", 83)
    ELSE LET s1 == del(its, item_id) IN
    IF exists(s1, item_id) THEN Threw(s1, "AssertionError", 85)
    ELSE Returned(s1)

\* /Item (.+) was deleted/
ItemDeletedReducer(its, item_id) ==
    IF ~exists(its, item_id) THEN Threw(its, "AssertionError", 91)
    ELSE LET parent_id == Prop(get(its, item_id), "parent_id") IN
    IF ~exists(its, parent_id) THEN Threw(its, "AssertionError", 93)
    ELSE LET item == get(its, parent_id) IN
    IF "subitems" \notin DOMAIN item THEN Threw(its, "TypeError", 97)
    ELSE LET s1 == update(its, parent_id,
                     Spread(item, "subitems", FilterOut(item.subitems, item_id)))
             s2 == del(s1, item_id)
         IN
    \* Item.get(parent_id) is undefined when the item was its own parent
    IF ~exists(s2, parent_id) THEN Threw(s2, "TypeError", 101)
    ELSE IF "subitems" \notin DOMAIN get(s2, parent_id) THEN Threw(s2, "TypeError", 101)
    ELSE IF Includes(get(s2, parent_id).subitems, item_id)
         THEN Threw(s2, "AssertionError", 101)
    ELSE IF exists(s2, item_id) THEN Threw(s2, "AssertionError", 102)
    ELSE Returned(s2)

\* /Item (.+) was moved inside item (.+) at position (.+)/
ItemMovedReducer(its, item_id, new_parent_id, position_str) ==
    IF ~exists(its, item_id) THEN Threw(its, "AssertionError", 108)
    ELSE IF ~exists(its, new_parent_id) THEN Threw(its, "AssertionError", 109)
    ELSE LET old_parent_id == Prop(get(its, item_id), "parent_id") IN
    IF ~exists(its, old_parent_id) THEN Threw(its, "AssertionError", 111)
    ELSE LET position == parseInt(position_str) IN
    IF NumberToString(position) # position_str THEN Threw(its, "AssertionError", 113)
    ELSE IF isNaN(position) THEN Threw(its, "AssertionError", 114)
    ELSE LET s1 == update(its, item_id,
                     Spread(get(its, item_id), "parent_id", new_parent_id))
             old_parent_item == get(s1, old_parent_id)
         IN
    IF "subitems" \notin DOMAIN old_parent_item THEN Threw(s1, "TypeError", 122)
    ELSE LET s2 == update(s1, old_parent_id,
                     Spread(old_parent_item, "subitems",
                            FilterOut(old_parent_item.subitems, item_id)))
             new_parent_item == get(s2, new_parent_id)
         IN
    IF "subitems" \notin DOMAIN new_parent_item THEN Threw(s2, "TypeError", 128)
    ELSE LET s3 == update(s2, new_parent_id,
                     Spread(new_parent_item, "subitems",
                            InsertAt(new_parent_item.subitems, position.val, item_id)))
         IN
    IF Includes(get(s3, old_parent_id).subitems, item_id)
    THEN Threw(s3, "AssertionError", 133)
    ELSE IF ~Includes(get(s3, new_parent_id).subitems, item_id)
         THEN Threw(s3, "AssertionError", 134)
    ELSE Returned(s3)

(***************************************************************************)
(* The facts the model applies.                                            *)
(***************************************************************************)
\* position tokens that print back as they were read
CanonicalPositions == {NumberToString(Num(n)) : n \in (0 - MaxPos)..MaxPos}

\* position tokens that do not (a leading zero, a plus sign, a fraction, an
\* exponent, no number), and the text NaN
OtherPositions ==
    { <<"0", "1">>, <<"+", "1">>, <<"1", ".", "5">>, <<"1", "e", "3">>,
      <<"a", "b", "c">>, <<"N", "a", "N">> }

PositionStrs == CanonicalPositions \cup OtherPositions

\* payloads of title and note facts: "H", "\n" (an escaped line feed),
\* and "H"i" (no JSON text)
EncodedTexts ==
    { <<"\"", "H", "\"">>, <<"\"", "\\", "n", "\"">>, <<"\"", "H", "\"", "i", "\"">> }

(***************************************************************************)
(* The preconditions section 4.3 of the specification lists for each fact, *)
(* read on the item table: an item exists when the table holds a record    *)
(* for it. They are the hypotheses of the claims, not code.                *)
(***************************************************************************)
Live(its, id) == id # Undefined /\ id \in DOMAIN its

\* a canonical, non-negative decimal integer
ValidPosition(position_str) ==
    /\ position_str # <<>>
    /\ \A i \in 1..Len(position_str) : CharValue(position_str[i]) < 10
    /\ Len(position_str) > 1 => position_str[1] # "0"

PreOutlineCreated(its, item_id) == ~Live(its, item_id)

PreItemCreatedInside(its, new_item_id, parent_item_id, position_str) ==
    /\ Live(its, parent_item_id)
    /\ ~Live(its, new_item_id)
    /\ ValidPosition(position_str)

PreTitleChanged(its, item_id, encoded_title) ==
    /\ Live(its, item_id)
    /\ JSONparse(encoded_title).ok
    /\ NoLineBreak(JSONparse(encoded_title).val)

PreNoteChanged(its, item_id, encoded_note) ==
    /\ Live(its, item_id)
    /\ JSONparse(encoded_note).ok

PreOutlineDeleted(its, item_id) ==
    /\ Live(its, item_id)
    /\ Prop(its[item_id], "parent_id") = Undefined

PreItemDeleted(its, item_id) ==
    /\ Live(its, item_id)
    /\ Live(its, Prop(its[item_id], "parent_id"))

PreItemMoved(its, item_id, new_parent_id, position_str) ==
    /\ Live(its, item_id)
    /\ Live(its, new_parent_id)
    /\ Live(its, Prop(its[item_id], "parent_id"))
    /\ ValidPosition(position_str)

(***************************************************************************)
(* The state machine.                                                      *)
(***************************************************************************)
VARIABLES
    items,      \* the item table, bundle.ts:10
    outcome     \* the reducer called last and how it ended: the exception it
                \* threw and the line that threw it, or none

vars == <<items, outcome>>

Init ==
    /\ items = [k \in {} |-> EmptyObj]
    /\ outcome = [kind |-> "none", error |-> "none", line |-> 0]

\* One reducer call. A strict call is one of a replay as section 7 of the
\* specification has it: the preconditions of the fact hold, and no fact is
\* applied once a reducer has thrown.
Apply(kind, result, strict, pre) ==
    /\ strict => (pre /\ outcome.error = "none")
    /\ items' = result.items
    /\ outcome' = [kind |-> kind, error |-> result.error, line |-> result.line]

OutlineCreated(I, strict) ==
    \E item_id \in I :
        Apply("OutlineCreated", OutlineCreatedReducer(items, item_id),
              strict, PreOutlineCreated(items, item_id))

ItemCreatedInside(I, strict) ==
    \E new_item_id \in I, parent_item_id \in I, position_str \in PositionStrs :
        Apply("ItemCreatedInside",
              ItemCreatedInsideReducer(items, new_item_id, parent_item_id, position_str),
              strict,
              PreItemCreatedInside(items, new_item_id, parent_item_id, position_str))

TitleChanged(I, strict) ==
    \E item_id \in I \cap TextIds, encoded_title \in EncodedTexts :
        Apply("TitleChanged", TitleChangedReducer(items, item_id, encoded_title),
              strict, PreTitleChanged(items, item_id, encoded_title))

NoteChanged(I, strict) ==
    \E item_id \in I \cap TextIds, encoded_note \in EncodedTexts :
        Apply("NoteChanged", NoteChangedReducer(items, item_id, encoded_note),
              strict, PreNoteChanged(items, item_id, encoded_note))

OutlineDeleted(I, strict) ==
    \E item_id \in I :
        Apply("OutlineDeleted", OutlineDeletedReducer(items, item_id),
              strict, PreOutlineDeleted(items, item_id))

ItemDeleted(I, strict) ==
    \E item_id \in I :
        Apply("ItemDeleted", ItemDeletedReducer(items, item_id),
              strict, PreItemDeleted(items, item_id))

ItemMoved(I, strict) ==
    \E item_id \in I, new_parent_id \in I, position_str \in PositionStrs :
        Apply("ItemMoved",
              ItemMovedReducer(items, item_id, new_parent_id, position_str),
              strict, PreItemMoved(items, item_id, new_parent_id, position_str))

\* any fact, whatever the reducer makes of it
Next ==
    \/ OutlineCreated(Ids, FALSE)
    \/ ItemCreatedInside(Ids, FALSE)
    \/ TitleChanged(Ids, FALSE)
    \/ NoteChanged(Ids, FALSE)
    \/ OutlineDeleted(Ids, FALSE)
    \/ ItemDeleted(Ids, FALSE)
    \/ ItemMoved(Ids, FALSE)

Spec == Init /\ [][Next]_vars

\* a replay in which every fact satisfies its preconditions and which stops
\* at the first exception
NextReplay ==
    \/ OutlineCreated(ReplayIds, TRUE)
    \/ ItemCreatedInside(ReplayIds, TRUE)
    \/ TitleChanged(ReplayIds, TRUE)
    \/ NoteChanged(ReplayIds, TRUE)
    \/ OutlineDeleted(ReplayIds, TRUE)
    \/ ItemDeleted(ReplayIds, TRUE)
    \/ ItemMoved(ReplayIds, TRUE)

SpecReplay == Init /\ [][NextReplay]_vars

\* a replay like NextReplay, about the ids of the wide trees
NextTree ==
    \/ OutlineCreated(TreeIds, TRUE)
    \/ ItemCreatedInside(TreeIds, TRUE)
    \/ TitleChanged(TreeIds, TRUE)
    \/ NoteChanged(TreeIds, TRUE)
    \/ OutlineDeleted(TreeIds, TRUE)
    \/ ItemDeleted(TreeIds, TRUE)
    \/ ItemMoved(TreeIds, TRUE)

SpecTree == Init /\ [][NextTree]_vars

\* any fact about the ids that are no ordinary names
NextNames ==
    \/ OutlineCreated(NameIds, FALSE)
    \/ ItemCreatedInside(NameIds, FALSE)
    \/ TitleChanged(NameIds, FALSE)
    \/ NoteChanged(NameIds, FALSE)
    \/ OutlineDeleted(NameIds, FALSE)
    \/ ItemDeleted(NameIds, FALSE)
    \/ ItemMoved(NameIds, FALSE)

SpecNames == Init /\ [][NextNames]_vars

(***************************************************************************)
(* Notions the claims use.                                                 *)
(***************************************************************************)
\* the parent_id of a live item
ParentOf(its, x) == Prop(its[x], "parent_id")

\* the subitems of a live item (none when the record has no such property)
SubitemsOf(its, p) == IF "subitems" \in DOMAIN its[p] THEN its[p].subitems ELSE <<>>

\* how often x occurs in arr
Occurrences(arr, x) == Cardinality({i \in 1..Len(arr) : arr[i] = x})

RECURSIVE AncestorAt(_, _, _)
\* the k-th ancestor of x along parent_id, Undefined past a root or a record
\* that is missing
AncestorAt(its, x, k) ==
    IF k = 0 THEN x
    ELSE LET y == AncestorAt(its, x, k - 1)
         IN  IF Live(its, y) THEN ParentOf(its, y) ELSE Undefined

(***************************************************************************)
(* C1 (invariant I2). After any sequence of facts that satisfy their       *)
(* preconditions, every live item x that has a parent_id p is such that p  *)
(* is live and x occurs exactly once in p.subitems.                        *)
(* Stated of the replays in which, moreover, no reducer has thrown.        *)
(***************************************************************************)
C1_ParentHoldsChild ==
    outcome.error = "none" =>
        \A x \in DOMAIN items :
            LET p == ParentOf(items, x)
            IN  p # Undefined =>
                    /\ Live(items, p)
                    /\ Occurrences(SubitemsOf(items, p), x) = 1

(***************************************************************************)
(* C2 (invariant I3). After any sequence of facts that satisfy their       *)
(* preconditions, no live item is its own ancestor along parent_id; a move *)
(* of an item inside itself or inside one of its descendants satisfies the *)
(* preconditions of a move.                                                *)
(* Stated of the replays in which, moreover, no reducer has thrown.        *)
(***************************************************************************)
C2_NoItemIsItsOwnAncestor ==
    outcome.error = "none" =>
        \A x \in DOMAIN items :
            \A k \in 1..Cardinality(DOMAIN items) : AncestorAt(items, x, k) # x

(***************************************************************************)
(* Steps. A step of the state machine is the call of one reducer on one    *)
(* fact; these predicates tell which.                                      *)
(***************************************************************************)
\* the step leaves what the reducer call with this result leaves
StepOf(kind, result) ==
    /\ items' = result.items
    /\ outcome' = [kind |-> kind, error |-> result.error, line |-> result.line]

OutlineCreatedStep(item_id) ==
    StepOf("OutlineCreated", OutlineCreatedReducer(items, item_id))

TitleChangedStep(item_id, encoded_title) ==
    StepOf("TitleChanged", TitleChangedReducer(items, item_id, encoded_title))

NoteChangedStep(item_id, encoded_note) ==
    StepOf("NoteChanged", NoteChangedReducer(items, item_id, encoded_note))

OutlineDeletedStep(item_id) ==
    StepOf("OutlineDeleted", OutlineDeletedReducer(items, item_id))

ItemDeletedStep(item_id) ==
    StepOf("ItemDeleted", ItemDeletedReducer(items, item_id))

ItemCreatedInsideStep(new_item_id, parent_item_id, position_str) ==
    StepOf("ItemCreatedInside",
           ItemCreatedInsideReducer(items, new_item_id, parent_item_id, position_str))

ItemMovedStep(item_id, new_parent_id, position_str) ==
    StepOf("ItemMoved", ItemMovedReducer(items, item_id, new_parent_id, position_str))

(***************************************************************************)
(* C3. A fact `Item new created inside parent at pos` applied when its      *)
(* preconditions hold (parent exists, new does not, pos is valid) makes    *)
(* the reducer return without throwing, and afterwards new exists, its     *)
(* parent_id is parent and new is an element of parent.subitems; for every *)
(* id new.                                                                 *)
(***************************************************************************)
C3_CreateInsideSucceeds ==
    [][\A new_item_id \in ReplayIds, parent_item_id \in ReplayIds,
          position_str \in PositionStrs :
        (/\ PreItemCreatedInside(items, new_item_id, parent_item_id, position_str)
         /\ ItemCreatedInsideStep(new_item_id, parent_item_id, position_str))
        => /\ outcome'.error = "none"
           /\ Live(items', new_item_id)
           /\ ParentOf(items', new_item_id) = parent_item_id
           /\ Includes(SubitemsOf(items', parent_item_id), new_item_id)]_vars

(***************************************************************************)
(* C4. A fact `Item id moved inside new_parent at pos` applied when its     *)
(* preconditions hold (id, new_parent and the parent of id exist, pos is   *)
(* valid) makes the reducer return without throwing, and afterwards the    *)
(* parent_id of id is new_parent and id is in new_parent.subitems; also    *)
(* when new_parent is the parent id already has (a reorder).               *)
(***************************************************************************)
C4_MoveSucceeds ==
    [][\A item_id \in ReplayIds, new_parent_id \in ReplayIds,
          position_str \in PositionStrs :
        (/\ PreItemMoved(items, item_id, new_parent_id, position_str)
         /\ ItemMovedStep(item_id, new_parent_id, position_str))
        => /\ outcome'.error = "none"
           /\ ParentOf(items', item_id) = new_parent_id
           /\ Includes(SubitemsOf(items', new_parent_id), item_id)]_vars

(***************************************************************************)
(* C5. For each of the seven reducers and in every reachable state: a fact *)
(* applied when one of its preconditions fails makes the reducer report a  *)
(* failure and leaves the whole item table as it was.                      *)
(* Stated of the facts SpecNames applies.                                  *)
(***************************************************************************)
\* the step reports a failure and changes nothing
Refused == outcome'.error # "none" /\ items' = items

C5_FailedPreconditionLeavesStore ==
    [][/\ \A item_id \in NameIds :
            /\ (~PreOutlineCreated(items, item_id) /\ OutlineCreatedStep(item_id))
                    => Refused
            /\ (~PreOutlineDeleted(items, item_id) /\ OutlineDeletedStep(item_id))
                    => Refused
            /\ (~PreItemDeleted(items, item_id) /\ ItemDeletedStep(item_id))
                    => Refused
       /\ \A item_id \in NameIds, encoded \in EncodedTexts :
            /\ (~PreTitleChanged(items, item_id, encoded)
                    /\ TitleChangedStep(item_id, encoded)) => Refused
            /\ (~PreNoteChanged(items, item_id, encoded)
                    /\ NoteChangedStep(item_id, encoded)) => Refused
       /\ \A item_id \in NameIds, other_id \in NameIds, position_str \in PositionStrs :
            /\ (~PreItemCreatedInside(items, item_id, other_id, position_str)
                    /\ ItemCreatedInsideStep(item_id, other_id, position_str)) => Refused
            /\ (~PreItemMoved(items, item_id, other_id, position_str)
                    /\ ItemMovedStep(item_id, other_id, position_str)) => Refused
      ]_vars

(***************************************************************************)
(* C6. No fact is applied in part: a reducer call that reports a failure,  *)
(* in a precondition check or in a postcondition check, leaves the item    *)
(* table as it was before the fact.                                        *)
(***************************************************************************)
C6_FailureLeavesStore == [][outcome'.error # "none" => items' = items]_vars

(***************************************************************************)
(* C7. In every reachable state, for every live item p: every id in        *)
(* p.subitems is a live item whose parent_id is p, and no id occurs more   *)
(* than once in p.subitems.                                                *)
(***************************************************************************)
C7_SubitemsAreChildren ==
    \A p \in DOMAIN items :
        \A i \in 1..Len(SubitemsOf(items, p)) :
            LET x == SubitemsOf(items, p)[i]
            IN  /\ Live(items, x)
                /\ ParentOf(items, x) = p
                /\ Occurrences(SubitemsOf(items, p), x) = 1

\* a move has returned and left some item with two subitems
C7_Witness ==
    /\ outcome.kind = "ItemMoved"
    /\ outcome.error = "none"
    /\ \E p \in DOMAIN items : Len(SubitemsOf(items, p)) = 2

(***************************************************************************)
(* C8. A create-inside or move fact whose position token carries a sign    *)
(* or denotes a negative integer fails and leaves the item table           *)
(* unchanged; no item is inserted at a negative index.                     *)
(***************************************************************************)
Signed(position_str) == position_str # <<>> /\ position_str[1] \in {"-", "+"}

C8_SignedPositionRefused ==
    [][\A item_id \in Ids, other_id \in Ids, position_str \in PositionStrs :
        (/\ Signed(position_str)
         /\ \/ ItemCreatedInsideStep(item_id, other_id, position_str)
            \/ ItemMovedStep(item_id, other_id, position_str))
        => Refused]_vars

(***************************************************************************)
(* C9. A create-inside or move fact is accepted only if its position token *)
(* is what parsing it as an integer and printing it back yields, that is a *)
(* decimal integer in canonical form. A token with a leading zero, a plus  *)
(* sign, a fraction, an exponent, no digits at all, or the text NaN, is    *)
(* rejected before anything is changed.                                    *)
(***************************************************************************)
\* the decimal integers as Number.prototype.toString prints them: an optional
\* minus sign, then digits without a leading zero; 0 has no sign
CanonicalInteger(str) ==
    LET digits == IF str # <<>> /\ Head(str) = "-" THEN Tail(str) ELSE str
    IN  /\ digits # <<>>
        /\ \A i \in 1..Len(digits) : CharValue(digits[i]) < 10
        /\ Len(digits) > 1 => digits[1] # "0"
        /\ digits = <<"0">> => str = digits

\* the reducer went past its position checks: it changed the table or returned
Accepted(its, result) == result.items # its \/ result.error = "none"

C9_OnlyRoundTripPositionsAccepted ==
    \A item_id \in Ids, other_id \in Ids, position_str \in PositionStrs :
        LET created == ItemCreatedInsideReducer(items, item_id, other_id, position_str)
            moved == ItemMovedReducer(items, item_id, other_id, position_str)
        IN  /\ Accepted(items, created) => CanonicalInteger(position_str)
            /\ Accepted(items, moved) => CanonicalInteger(position_str)
            /\ position_str \in OtherPositions =>
                    /\ ~Accepted(items, created)
                    /\ ~Accepted(items, moved)

\* a move fact with the position NaN has been stopped by the isNaN check
C9_Witness ==
    /\ outcome.kind = "ItemMoved"
    /\ outcome.error = "AssertionError"
    /\ outcome.line = 114

(***************************************************************************)
(* C10. A move is atomic: whenever a move fact takes an item from its      *)
(* parent to a different item, both of them records with subitems, the     *)
(* table the reducer leaves behind has the item in the subitems of the new *)
(* parent and not in those of the old one, and the reducer has returned;   *)
(* or else the reducer has thrown and left the table untouched. No table   *)
(* with the item in both or in neither is left behind.                     *)
(***************************************************************************)
\* a record of the table that has subitems
IsParent(its, id) == Live(its, id) /\ "subitems" \in DOMAIN its[id]

C10_MoveIsAtomic ==
    \A item_id \in Ids, new_parent_id \in Ids, position_str \in PositionStrs :
        (/\ Live(items, item_id)
         /\ IsParent(items, new_parent_id)
         /\ IsParent(items, ParentOf(items, item_id))
         /\ ParentOf(items, item_id) # new_parent_id)
        => LET old_parent_id == ParentOf(items, item_id)
               res == ItemMovedReducer(items, item_id, new_parent_id, position_str)
           IN  \/ res.items = items /\ res.error # "none"
               \/ /\ res.error = "none"
                  /\ Includes(SubitemsOf(res.items, new_parent_id), item_id)
                  /\ ~Includes(SubitemsOf(res.items, old_parent_id), item_id)

\* a move between two different parents has returned: the check of line 133
\* lets no other move return
C10_Witness ==
    /\ outcome.kind = "ItemMoved"
    /\ outcome.error = "none"
    /\ \E x \in DOMAIN items :
          /\ Live(items, ParentOf(items, x))
          /\ SubitemsOf(items, ParentOf(items, x)) = <<x>>
          /\ \E q \in DOMAIN items : q # ParentOf(items, x) /\ q # x

(***************************************************************************)
(* Trees. The claims about deleting speak of a store that is one tree: a   *)
(* single root, and every other live item below it.                        *)
(***************************************************************************)
\* a live item without a parent_id
IsRoot(its, x) == Live(its, x) /\ ParentOf(its, x) = Undefined

\* x is r or has r among its ancestors
Descends(its, x, r) ==
    \E k \in 0..Cardinality(DOMAIN its) : AncestorAt(its, x, k) = r

\* the table is one tree with the root r: r is the only root, every live item
\* descends from r, and every item with a parent is listed once by it
OneTree(its, r) ==
    /\ IsRoot(its, r)
    /\ \A x \in DOMAIN its :
          /\ IsRoot(its, x) => x = r
          /\ Descends(its, x, r)
          /\ x # r => /\ Live(its, ParentOf(its, x))
                      /\ Occurrences(SubitemsOf(its, ParentOf(its, x)), x) = 1

RECURSIVE DeleteChildren(_, _, _)
\* `Item c was deleted` for each of the first n children c of r in turn, each
\* applied with its preconditions holding; stops at a reducer that throws or
\* at a fact whose preconditions fail
DeleteChildren(its, r, n) ==
    IF n = 0 \/ ~Live(its, r) \/ SubitemsOf(its, r) = <<>> THEN Returned(its)
    ELSE LET c == Head(SubitemsOf(its, r))
         IN  IF ~PreItemDeleted(its, c) THEN Threw(its, "PreconditionFails", 0)
             ELSE LET res == ItemDeletedReducer(its, c)
                  IN  IF res.error # "none" THEN res
                      ELSE DeleteChildren(res.items, r, n - 1)

\* the children of r deleted one by one, then `Outline r was deleted`
DeleteChildrenThenRoot(its, r) ==
    LET emptied == DeleteChildren(its, r, Len(SubitemsOf(its, r)))
    IN  IF emptied.error # "none" THEN emptied
        ELSE IF ~PreOutlineDeleted(emptied.items, r)
             THEN Threw(emptied.items, "PreconditionFails", 0)
        ELSE OutlineDeletedReducer(emptied.items, r)

(***************************************************************************)
(* C11. From any reachable store that is one tree: once every child of the *)
(* root has been removed by an `Item deleted` fact, each applied with its  *)
(* preconditions holding, and the root has then been removed by `Outline   *)
(* deleted`, the store is empty: exists(id) is false for every id, also    *)
(* when the deleted children had subitems themselves.                      *)
(***************************************************************************)
C11_DeletingTreeEmptiesStore ==
    \A r \in DOMAIN items :
        (outcome.error = "none" /\ OneTree(items, r)) =>
            LET res == DeleteChildrenThenRoot(items, r)
            IN  /\ res.error = "none"
                /\ \A id \in ReplayIds : ~exists(res.items, id)

(***************************************************************************)
(* C12 (invariant I1). In every reachable state and for every id,          *)
(* exists(id) is true if and only if a create fact for id (outline-create  *)
(* or create-inside) has been applied and no delete fact for id            *)
(* (outline-delete or item-delete) has been applied since; no other fact   *)
(* changes the set of live ids.                                            *)
(* Stated step by step, a fact being applied when its reducer returns: a   *)
(* create fact for id that is applied adds id to the ids that exist, a     *)
(* delete fact for id that is applied removes it, and every other step,    *)
(* the facts that fail included, leaves that set as it was.                *)
(***************************************************************************)
\* the ids for which Item.exists is true
LiveIds == {id \in Ids : exists(items, id)}

\* the step has applied its fact
Applied == outcome'.error = "none"

C12_ExistsIffCreatedNotDeleted ==
    [][/\ \A id \in Ids :
            /\ OutlineCreatedStep(id) =>
                    LiveIds' = IF Applied THEN LiveIds \cup {id} ELSE LiveIds
            /\ OutlineDeletedStep(id) =>
                    LiveIds' = IF Applied THEN LiveIds \ {id} ELSE LiveIds
            /\ ItemDeletedStep(id) =>
                    LiveIds' = IF Applied THEN LiveIds \ {id} ELSE LiveIds
       /\ \A id \in Ids, encoded \in EncodedTexts :
            /\ TitleChangedStep(id, encoded) => LiveIds' = LiveIds
            /\ NoteChangedStep(id, encoded) => LiveIds' = LiveIds
       /\ \A id \in Ids, other_id \in Ids, position_str \in PositionStrs :
            /\ ItemCreatedInsideStep(id, other_id, position_str) =>
                    LiveIds' = IF Applied THEN LiveIds \cup {id} ELSE LiveIds
            /\ ItemMovedStep(id, other_id, position_str) => LiveIds' = LiveIds
      ]_vars

(***************************************************************************)
(* C13 (invariant I4). In every reachable state no live item's title       *)
(* holds a line break (the line feed, which the reducer looks for); a      *)
(* title-change fact whose decoded value holds one fails and leaves the    *)
(* title and the rest of the store as they were; and no reducer but those  *)
(* of the create facts (the empty title) and of the title-change fact      *)
(* writes a title.                                                         *)
(***************************************************************************)
\* the title of a live item
TitleOf(its, x) == Prop(its[x], "title")

\* the text holds a line feed
HasLineBreak(text) == \E i \in 1..Len(text) : text[i] = "\n"

C14_RecordKeptUnderItsId ==
    \A k \in DOMAIN items : Prop(items[k], "id") = k

(***************************************************************************)
(* C15. `Item id was deleted`, applied with its preconditions holding,     *)
(* removes the record of id and the entry id of its parent's subitems and  *)
(* nothing else: the other children of the parent keep their order, every  *)
(* other record is as it was, and the subitems id had stay live with the   *)
(* parent_id id; they are neither deleted nor given another parent.        *)
(***************************************************************************)
RECURSIVE Without(_, _)
\* the sequence arr with every x left out, the rest in its order
Without(arr, x) ==
    IF arr = <<>> THEN <<>>
    ELSE (IF Head(arr) = x THEN <<>> ELSE <<Head(arr)>>) \o Without(Tail(arr), x)

C15_ItemDeletedFrame ==
    \A item_id \in DOMAIN items :
        PreItemDeleted(items, item_id) =>
            LET parent_id == ParentOf(items, item_id)
                res == ItemDeletedReducer(items, item_id)
            IN  /\ DOMAIN res.items = DOMAIN items \ {item_id}
                /\ \A k \in DOMAIN res.items :
                      res.items[k] =
                          IF k = parent_id
                          THEN [items[k] EXCEPT
                                   !.subitems = Without(items[k].subitems, item_id)]
                          ELSE items[k]
                /\ \A c \in DOMAIN items \ {item_id} :
                      ParentOf(items, c) = item_id =>
                          /\ Live(res.items, c)
                          /\ ParentOf(res.items, c) = item_id

\* an item has been deleted which had a subitem, still in the table, and whose
\* parent has a subitem left
C15_Witness ==
    /\ outcome.kind = "ItemDeleted"
    /\ outcome.error = "none"
    /\ \E p \in DOMAIN items : Len(SubitemsOf(items, p)) = 1
    /\ \E c \in DOMAIN items :
          ParentOf(items, c) # Undefined /\ ~Live(items, ParentOf(items, c))

(***************************************************************************)
(* Fact lines. The reducers are registered under regular expressions       *)
(* (bundle.ts:23-24, 31-32, ...), which a line of the fact log is matched  *)
(* against. A line is modelled as the sequence of its words: the words are *)
(* separated by blanks, and the suffix 's of the title and note facts is a *)
(* word of its own. bundle.ts registers the reducers and has no function   *)
(* that takes a line; the function that does is modelled on sections 4.2   *)
(* and 4.3 of the specification.                                           *)
(***************************************************************************)
\* the group (.+) and the group (".+") of a regular expression
Group == "(.+)"
QuotedGroup == "(\".+\")"

\* the regular expressions in the order Reducer.define registers them, each
\* with the reducer it is registered with
Patterns ==
    << [kind |-> "OutlineCreated",
        regex |-> <<"Outline", Group, "was", "created">>],
       [kind |-> "ItemCreatedInside",
        regex |-> <<"Item", Group, "was", "created", "inside", "item", Group,
                    "at", "position", Group>>],
       [kind |-> "TitleChanged",
        regex |-> <<"Item", Group, "'s", "title", "was", "changed", "to", QuotedGroup>>],
       [kind |-> "NoteChanged",
        regex |-> <<"Item", Group, "'s", "note", "was", "changed", "to", QuotedGroup>>],
       [kind |-> "OutlineDeleted",
        regex |-> <<"Outline", Group, "was", "deleted">>],
       [kind |-> "ItemDeleted",
        regex |-> <<"Item", Group, "was", "deleted">>],
       [kind |-> "ItemMoved",
        regex |-> <<"Item", Group, "was", "moved", "inside", "item", Group,
                    "at", "position", Group>>] >>

\* the words that are payloads of title and note facts, and the characters
\* of each
PayloadWords == {"\"H\"", "\"\\n\"", "\"H\"i\""}

\* the characters of a word that a reducer parses
Chars(word) ==
    CASE word = "\"H\"" -> <<"\"", "H", "\"">>
      [] word = "\"\\n\"" -> <<"\"", "\\", "n", "\"">>
      [] word = "\"H\"i\"" -> <<"\"", "H", "\"", "i", "\"">>
      [] word = "0" -> <<"0">>
      [] word = "1" -> <<"1">>
      [] word = "2" -> <<"2">>
      [] word = "-1" -> <<"-", "1">>
      [] word = "01" -> <<"0", "1">>
      [] OTHER -> <<"a", "b", "c">>

\* the words line[j..k] are what the group may capture: (.+) takes one word
\* or more, (".+") takes words that start and end with a double quote
Captures(group, line, j, k) ==
    /\ j <= k
    /\ group = QuotedGroup => (line[j] \in PayloadWords /\ line[k] \in PayloadWords)

\* a faulty match, which does not compare the words of the expression
RECURSIVE MatchAtAnyWords(_, _, _, _)
MatchAtAnyWords(regex, i, line, j) ==
    IF i > Len(regex) THEN TRUE
    ELSE IF regex[i] \in {Group, QuotedGroup}
         THEN \E k \in j..Len(line) :
                 /\ Captures(regex[i], line, j, k)
                 /\ MatchAtAnyWords(regex, i + 1, line, k + 1)
         ELSE j <= Len(line) /\ MatchAtAnyWords(regex, i + 1, line, j + 1)

RECURSIVE MatchAt(_, _, _, _)
\* the expression from its i-th part on matches the line from its j-th word
\* on; the expressions are not anchored, so that the line may go on after the
\* match
MatchAt(regex, i, line, j) ==
    IF i > Len(regex) THEN TRUE
    ELSE IF regex[i] \in {Group, QuotedGroup}
         THEN \E k \in j..Len(line) :
                 /\ Captures(regex[i], line, j, k)
                 /\ MatchAt(regex, i + 1, line, k + 1)
         ELSE j <= Len(line) /\ line[j] = regex[i] /\ MatchAt(regex, i + 1, line, j + 1)

\* regex.exec(line) finds a match, at any word of the line
Matches(regex, line) == \E j \in 1..Len(line) : MatchAt(regex, 1, line, j)

RECURSIVE GroupsAt(_, _, _, _)
\* what the groups capture in the match from the j-th word on: each group is
\* greedy, it takes the longest run of words that lets the rest match
GroupsAt(regex, i, line, j) ==
    IF i > Len(regex) THEN <<>>
    ELSE IF regex[i] \in {Group, QuotedGroup}
         THEN LET k == CHOOSE k \in j..Len(line) :
                          /\ Captures(regex[i], line, j, k)
                          /\ MatchAt(regex, i + 1, line, k + 1)
                          /\ \A m \in (k + 1)..Len(line) :
                                ~(/\ Captures(regex[i], line, j, m)
                                  /\ MatchAt(regex, i + 1, line, m + 1))
              IN  <<SubSeq(line, j, k)>> \o GroupsAt(regex, i + 1, line, k + 1)
         ELSE GroupsAt(regex, i + 1, line, j + 1)

\* the groups of the leftmost match
Groups(regex, line) ==
    LET j == CHOOSE j \in 1..Len(line) :
                /\ MatchAt(regex, 1, line, j)
                /\ \A m \in 1..(j - 1) : ~MatchAt(regex, 1, line, m)
    IN  GroupsAt(regex, 1, line, j)

\* the one word a group has captured: the groups of the lines of the model
\* capture single words
WordOf(captured) == captured[1]

\* section 4.2, the Fact Parser: the patterns are tried in the order of their
\* registration, and the first that matches gives the kind of the fact and
\* its fields; a line that none matches is no fact
ParseLine(line) ==
    LET matching == {i \in 1..Len(Patterns) : Matches(Patterns[i].regex, line)}
    IN  IF matching = {} THEN [ok |-> FALSE, kind |-> "none", fields |-> <<>>]
        ELSE LET i == CHOOSE i \in matching : \A m \in matching : i <= m
             IN  [ok |-> TRUE, kind |-> Patterns[i].kind,
                  fields |-> Groups(Patterns[i].regex, line)]

\* the kinds a reducer is registered for
RegisteredKinds == {Patterns[i].kind : i \in 1..Len(Patterns)}

\* the reducer of a kind, called on the fields of a fact
CallReducer(its, kind, fields) ==
    CASE kind = "OutlineCreated" -> OutlineCreatedReducer(its, WordOf(fields[1]))
      [] kind = "ItemCreatedInside" ->
            ItemCreatedInsideReducer(its, WordOf(fields[1]), WordOf(fields[2]),
                                     Chars(WordOf(fields[3])))
      [] kind = "TitleChanged" ->
            TitleChangedReducer(its, WordOf(fields[1]), Chars(WordOf(fields[2])))
      [] kind = "NoteChanged" ->
            NoteChangedReducer(its, WordOf(fields[1]), Chars(WordOf(fields[2])))
      [] kind = "OutlineDeleted" -> OutlineDeletedReducer(its, WordOf(fields[1]))
      [] kind = "ItemDeleted" -> ItemDeletedReducer(its, WordOf(fields[1]))
      [] kind = "ItemMoved" ->
            ItemMovedReducer(its, WordOf(fields[1]), WordOf(fields[2]),
                             Chars(WordOf(fields[3])))

\* section 4.3, apply: the line is parsed, the reducer registered for its kind
\* is looked up and called on its fields
ApplyLine(its, line) ==
    LET fact == ParseLine(line)
    IN  IF ~fact.ok THEN Threw(its, "NoMatchingPattern", 0)
        ELSE IF fact.kind \notin RegisteredKinds THEN Threw(its, "UnknownFactKind", 0)
        ELSE CallReducer(its, fact.kind, fact.fields)

\* lines that are facts
FactLines ==
    { <<"Outline", "r", "was", "created">>,
      <<"Outline", "0", "was", "created">>,
      <<"Item", "0", "was", "created", "inside", "item", "r", "at", "position", "0">>,
      <<"Item", "1", "was", "created", "inside", "item", "r", "at", "position", "1">>,
      <<"Item", "1", "was", "created", "inside", "item", "0", "at", "position", "-1">>,
      <<"Item", "1", "was", "moved", "inside", "item", "0", "at", "position", "0">>,
      <<"Item", "0", "was", "moved", "inside", "item", "r", "at", "position", "01">>,
      <<"Item", "r", "'s", "title", "was", "changed", "to", "\"H\"">>,
      <<"Item", "0", "'s", "title", "was", "changed", "to", "\"\\n\"">>,
      <<"Item", "0", "'s", "note", "was", "changed", "to", "\"\\n\"">>,
      <<"Item", "1", "'s", "note", "was", "changed", "to", "\"H\"i\"">>,
      <<"Outline", "r", "was", "deleted">>,
      <<"Outline", "0", "was", "deleted">>,
      <<"Item", "0", "was", "deleted">>,
      <<"Item", "1", "was", "deleted">> }

\* lines that no regular expression of bundle.ts matches: a verb no fact has,
\* a line cut short, other capitals, a fact without its last field, no fact
\* at all
OtherLines ==
    { <<"Item", "r", "was", "renamed">>,
      <<"Outline", "r", "was">>,
      <<"item", "0", "was", "deleted">>,
      <<"Item", "0", "was", "moved", "inside", "item", "r">>,
      <<"Item", "'s", "title", "was", "changed", "to", "\"H\"">>,
      <<"hello">> }

Lines == FactLines \cup OtherLines

\* one line of the log is applied
ApplyFact ==
    \E line \in Lines :
        LET result == ApplyLine(items, line)
        IN  /\ items' = result.items
            /\ outcome' = [kind |-> ParseLine(line).kind, error |-> result.error,
                           line |-> result.line]

NextLines == ApplyFact

SpecLines == Init /\ [][NextLines]_vars

C17_CreateInsideIndex ==
    \A new_item_id \in TreeIds, parent_item_id \in DOMAIN items, pos \in 0..MaxPos :
        LET position_str == NumberToString(Num(pos))
            before == SubitemsOf(items, parent_item_id)
            res == ItemCreatedInsideReducer(items, new_item_id, parent_item_id,
                                            position_str)
            after == SubitemsOf(res.items, parent_item_id)
        IN  PreItemCreatedInside(items, new_item_id, parent_item_id, position_str) =>
                /\ Len(after) = Len(before) + 1
                /\ after[Min(pos, Len(before)) + 1] = new_item_id
                /\ Without(after, new_item_id) = before

\* a create-inside fact has returned and left a parent with three subitems
C17_Witness ==
    /\ outcome.kind = "ItemCreatedInside"
    /\ outcome.error = "none"
    /\ \E p \in DOMAIN items : Len(SubitemsOf(items, p)) = 3

(***************************************************************************)
(* C18. After `Item id was moved inside item new_parent at position pos`   *)
(* with pos >= 0, applied with its preconditions holding: the subitems of  *)
(* new_parent are those it had without id, with id put in at the index     *)
(* min(pos, n), n being their number once id is left out; the other        *)
(* subitems of the old and of the new parent keep their order; the title,  *)
(* the note and the subitems of the moved item are as they were, and so is *)
(* every record other than those of id, the old parent and the new parent. *)
(* Stated of the table the reducer leaves behind, in the replays in which  *)
(* no reducer has thrown.                                                  *)
(***************************************************************************)
C18_MoveResult ==
    \A item_id \in DOMAIN items, new_parent_id \in DOMAIN items, pos \in 0..MaxPos :
        LET position_str == NumberToString(Num(pos))
            old_parent_id == ParentOf(items, item_id)
            res == ItemMovedReducer(items, item_id, new_parent_id, position_str)
            others == Without(SubitemsOf(items, new_parent_id), item_id)
            after == SubitemsOf(res.items, new_parent_id)
        IN  (/\ outcome.error = "none"
             /\ PreItemMoved(items, item_id, new_parent_id, position_str)) =>
                /\ DOMAIN res.items = DOMAIN items
                /\ Len(after) = Len(others) + 1
                /\ after[Min(pos, Len(others)) + 1] = item_id
                /\ Without(after, item_id) = others
                /\ old_parent_id # new_parent_id =>
                      SubitemsOf(res.items, old_parent_id)
                          = Without(SubitemsOf(items, old_parent_id), item_id)
                /\ res.items[item_id].title = items[item_id].title
                /\ res.items[item_id].note = items[item_id].note
                /\ res.items[item_id].subitems = items[item_id].subitems
                /\ \A k \in DOMAIN items \ {item_id, old_parent_id, new_parent_id} :
                      res.items[k] = items[k]

(***************************************************************************)
(* C19. A title-change fact on id that succeeds changes nothing but the    *)
(* title of id, and a note-change fact that succeeds nothing but its note: *)
(* the id, the parent_id, the subitems and the other text of the item, the *)
(* set of live ids and the record of every other item are as they were;    *)
(* afterwards the field is the decoded value.                              *)
(***************************************************************************)
\* the properties of an Item (bundle.ts:2-8)
Fields == {"id", "parent_id", "subitems", "title", "note"}

\* the string each payload of the model that is a JSON string denotes
Decoded(encoded) ==
    CASE encoded = <<"\"", "H", "\"">> -> <<"H">>
      [] encoded = <<"\"", "\\", "n", "\"">> -> <<"\n">>

\* the table `after` is the table `before` but for the field of id, which
\* has the value
ChangedOnly(before, after, id, field, value) ==
    /\ DOMAIN after = DOMAIN before
    /\ \A k \in DOMAIN before \ {id} : after[k] = before[k]
    /\ \A f \in Fields \ {field} : Prop(after[id], f) = Prop(before[id], f)
    /\ Prop(after[id], field) = value

C19_TextChangeFrame ==
    \A item_id \in Ids, encoded \in EncodedTexts :
        LET titled == TitleChangedReducer(items, item_id, encoded)
            noted == NoteChangedReducer(items, item_id, encoded)
        IN  /\ titled.error = "none" =>
                  ChangedOnly(items, titled.items, item_id, "title", Decoded(encoded))
            /\ noted.error = "none" =>
                  ChangedOnly(items, noted.items, item_id, "note", Decoded(encoded))

\* a note-change fact has returned for an item that has a title, a note of
\* one line feed and a subitem
C19_Witness ==
    /\ outcome.kind = "NoteChanged"
    /\ outcome.error = "none"
    /\ \E x \in DOMAIN items :
          /\ Prop(items[x], "title") = <<"H">>
          /\ Prop(items[x], "note") = <<"\n">>
          /\ SubitemsOf(items, x) # <<>>

(***************************************************************************)
(* C20. Orphans are stuck. In any state in which a live item x has a       *)
(* parent_id that names no live record, every fact `Item x was deleted`,   *)
(* `Outline x was deleted` and `Item x was moved ...` fails and leaves the *)
(* store unchanged; and this stays so in every later state until a create  *)
(* fact for that parent id is applied: x stays as it is. Hence, once a     *)
(* parent has been deleted before its children, no sequence of delete      *)
(* facts empties the store.                                                *)
(***************************************************************************)
\* a live item whose parent_id names no live record
Orphan(its, x) ==
    /\ Live(its, x)
    /\ ParentOf(its, x) # Undefined
    /\ ~Live(its, ParentOf(its, x))

\* the reducer call has failed and left the table `its` as it was
Failed(its, result) == result.error # "none" /\ result.items = its

\* the facts that delete or move x all fail on the table
Stuck(its, x, I) ==
    /\ Failed(its, ItemDeletedReducer(its, x))
    /\ Failed(its, OutlineDeletedReducer(its, x))
    /\ \A new_parent_id \in I, position_str \in PositionStrs :
          Failed(its, ItemMovedReducer(its, x, new_parent_id, position_str))

C20_OrphansAreStuck ==
    /\ [](\A x \in DOMAIN items : Orphan(items, x) => Stuck(items, x, NameIds))
    /\ [][\A x \in DOMAIN items :
            (/\ Orphan(items, x)
             /\ ~(/\ outcome'.kind \in {"OutlineCreated", "ItemCreatedInside"}
                  /\ Live(items', ParentOf(items, x))))
            => /\ Orphan(items', x)
               /\ ParentOf(items', x) = ParentOf(items, x)]_vars

(***************************************************************************)
(* C21. An item created by `Outline id was created` stays a root for its   *)
(* whole life, for every sequence of facts and every choice of ids: until  *)
(* it is deleted it has no parent_id and is in no item's subitems, every   *)
(* move fact and every `Item deleted` fact that names it fails and leaves  *)
(* the store unchanged, and nothing but `Outline id was deleted` removes   *)
(* it.                                                                     *)
(***************************************************************************)
\* a record Item.create has made without a parent_id, which only the reducer
\* of `Outline id was created` does
OutlineRoot(its, x) ==
    /\ Live(its, x)
    /\ Prop(its[x], "id") = x
    /\ ParentOf(its, x) = Undefined

C21_RootStaysRoot ==
    /\ [](\A x \in DOMAIN items :
            OutlineRoot(items, x) =>
                /\ \A p \in DOMAIN items : ~Includes(SubitemsOf(items, p), x)
                /\ Failed(items, ItemDeletedReducer(items, x))
                /\ \A new_parent_id \in NameIds, position_str \in PositionStrs :
                      Failed(items,
                             ItemMovedReducer(items, x, new_parent_id, position_str)))
    /\ [][\A x \in DOMAIN items :
            OutlineRoot(items, x) =>
                \/ OutlineRoot(items', x)
                \/ ~Live(items', x) /\ outcome'.kind = "OutlineDeleted"]_vars

=============================================================================
